---- MODULE Spec2Model ----
(***************************************************************************)
(* Generic REST resources of flask_restplus_patched/generics/base.py and   *)
(* the decorator chain applicator of flask_restplus_patched/utils.py.      *)
(*                                                                         *)
(* A handler is a sequence of layers, outermost first: the decorators that *)
(* wrap it, and last the original method body.  Decorating a handler       *)
(* prepends a layer; calling it runs the layers from the first to the body.*)
(***************************************************************************)
EXTENDS Integers, Sequences, FiniteSets, TLC

\* Bounds of the model.
MaxPerms == 2     \* longest declared permission_classes list
MaxRows == 2      \* rows seeded in the model's table before the first request
MaxOffset == 3    \* largest offset a request asks for
MaxLimit == 2     \* largest limit a request asks for
MaxAccess == 2    \* requests are served while the storage counter is below this
MaxLen == 3       \* longest decorator list handed to bulk_decorate on its own

VARIABLES
    cls,            \* the resource descriptor (class attributes model, parameters, ...)
    handlers,       \* the class's verb attributes get / post (<<>> when not defined)
    applied,        \* decorators_to_apply computed by _document_resource, per verb
    docStatus,      \* "unregistered", "registered", or the exception registration raised
    table,          \* rows of the model's table, in primary-key order
    storageAccess,  \* number of get_queryset() / session.add() storage accesses so far
    lastCall,       \* the last request served: what ran and how it ended
    decorators,     \* bulk_decorate on its own: the decorator list
    func,           \* bulk_decorate on its own: the target handler
    composed,       \* bulk_decorate on its own: the handler it returned (<<>> before)
    invoked         \* bulk_decorate on its own: one call of composed, its events and end

vars == <<cls, handlers, applied, docStatus, table, storageAccess, lastCall,
          decorators, func, composed, invoked>>

resourceVars == <<cls, handlers, applied, docStatus, table, storageAccess, lastCall>>
bulkVars == <<decorators, func, composed, invoked>>

------------------------------------------------------------------------------
\* Values

Kinds == {"ListAPIResource", "CreateAPIResource", "ListCreateAPIResource"}
PermissionClasses == {"AllowAll", "DenyAll"}
Verbs == {"get", "post"}
Names == 1 .. (MaxRows + 1)

RECURSIVE SeqsUpTo(_, _)
SeqsUpTo(S, n) ==
    IF n = 0 THEN {<<>>}
    ELSE LET shorter == SeqsUpTo(S, n - 1)
         IN  shorter \cup {Append(s, x) : s \in {t \in shorter : Len(t) = n - 1}, x \in S}

Range(s) == {s[i] : i \in 1 .. Len(s)}
Min(a, b) == IF a < b THEN a ELSE b

\* A layer of a handler.
Layer(type, code, of) == [type |-> type, code |-> code, of |-> of]
Body(verb) == Layer("body", 0, verb)

\* target.methods: the verbs the resource class defines
Methods(kind) ==
    CASE kind = "ListAPIResource" -> {"get"}
      [] kind = "CreateAPIResource" -> {"post"}
      [] OTHER -> {"get", "post"}

------------------------------------------------------------------------------
\* The namespace's decorators (flask_restplus_patched.namespace, by interface):
\* each returns a decorator, here the layer it wraps a handler with.

\* namespace.response(code=..., model=...): documents one response shape
response(code, model) == Layer("response", code, model)

\* namespace.parameters(validator): validates the request's input
parameters(validator) == Layer("parameters", 0, validator)

\* namespace.permission_required(permission()): checks one permission
permission_required(permission) == Layer("permission", 0, permission)

\* d(func): a decorator applied to a handler wraps it in one more layer
Decorate(d, handler) == <<d>> \o handler

------------------------------------------------------------------------------
\* utils.bulk_decorate

Reversed(s) == [i \in 1 .. Len(s) |-> s[Len(s) + 1 - i]]

\* the loop "for d in <iteration order>: func = d(func)"
RECURSIVE DecorateEach(_, _)
DecorateEach(order, handler) ==
    IF order = <<>> THEN handler
    ELSE DecorateEach(Tail(order), Decorate(Head(order), handler))

\* a bulk_decorate that iterates the list in declaration order
bulk_decorate_forward(decs, handler) == DecorateEach(decs, handler)

\* bulk_decorate(decorators)(func)
bulk_decorate(decs, handler) == DecorateEach(Reversed(decs), handler)

------------------------------------------------------------------------------
\* Handler metadata.  A settings dict is a function whose domain is the set of
\* keys present; dict.update is a right-biased merge.

update(settings, entries) == entries @@ settings

\* ListAPIResource.get_method_input_output_settings
get_method_input_output_settings(self) ==
    LET base == [response_schemas |-> << response(400, "none"),
                                         response(200, "many") >>]
        withParameters ==
            IF self.pagination_class
            THEN update(base, [parameters |-> parameters("pagination_class")])
            ELSE IF self.parameters
                 THEN update(base, [parameters |-> parameters("parameters")])
                 ELSE base
    IN  IF self.permission_classes # <<>>
        THEN update(withParameters,
                    [permissions |->
                        [i \in 1 .. Len(self.permission_classes) |->
                            permission_required(self.permission_classes[i])]])
        ELSE withParameters

\* ListAPIResource._get_method_decorators.  Python parses
\*   A + [P] if c1 else [] + S if c2 else []
\* as  (A + [P]) if c1 else (([] + S) if c2 else []).
_get_method_decorators(self) ==
    LET settings == get_method_input_output_settings(self)
    IN  IF "parameters" \in DOMAIN settings
        THEN settings.response_schemas \o <<settings.parameters>>
        ELSE IF "permissions" \in DOMAIN settings
             THEN <<>> \o settings.permissions
             ELSE <<>>

\* CreateAPIResource.post_method_settings: response dicts, the parameters
\* instance, and the permission instances, not yet decorators
post_method_settings(self) ==
    LET base == [response_schemas |-> << [code |-> 400, model |-> "none"],
                                         [code |-> 200, model |-> "one"] >>]
        withParameters ==
            IF self.parameters
            THEN update(base, [parameters |-> "parameters"])
            ELSE base
    IN  IF self.permission_classes # <<>>
        THEN update(withParameters, [permissions |-> self.permission_classes])
        ELSE withParameters

\* CreateAPIResource._post_method_decorators: the same conditional expression
_post_method_decorators(self) ==
    LET settings == post_method_settings(self)
    IN  IF "parameters" \in DOMAIN settings
        THEN [i \in 1 .. Len(settings.response_schemas) |->
                 response(settings.response_schemas[i].code,
                          settings.response_schemas[i].model)]
             \o <<parameters(settings.parameters)>>
        ELSE IF "permissions" \in DOMAIN settings
             THEN <<>> \o [i \in 1 .. Len(settings.permissions) |->
                              permission_required(settings.permissions[i])]
             ELSE <<>>

------------------------------------------------------------------------------
\* Registration: _document_resource

\* "for method in target.methods: setattr(target, method, decorator(getattr(...)))"
ApplyToMethods(h, decorator, methods) ==
    [v \in Verbs |-> IF v \in methods THEN Decorate(decorator, h[v]) ELSE h[v]]

RECURSIVE ApplyEach(_, _, _)
ApplyEach(h, decs, methods) ==
    IF decs = <<>> THEN h
    ELSE ApplyEach(ApplyToMethods(h, Head(decs), methods), Tail(decs), methods)

\* GenericResource._document_resource(namespace, target): every verb method of
\* the target is wrapped by each permission check, one after the other
GenericResource_document_resource(target, h) ==
    LET decorators_to_apply ==
            [i \in 1 .. Len(target.permission_classes) |->
                permission_required(target.permission_classes[i])]
    IN  ApplyEach(h, decorators_to_apply, Methods(target.kind))

NoDecorators == [v \in Verbs |-> <<>>]

\* ListAPIResource._document_resource
ListAPIResource_document_resource(self, h) ==
    LET generic == GenericResource_document_resource(self, h)
        decorators_to_apply == _get_method_decorators(self)
    IN  [status |-> "registered",
         handlers |-> [generic EXCEPT
                          !["get"] = bulk_decorate(decorators_to_apply, generic["get"])],
         applied |-> [NoDecorators EXCEPT !["get"] = decorators_to_apply]]

\* CreateAPIResource._document_resource: after the generic step it looks up
\* instance._post_method_decoratos, an attribute no class defines
CreateAPIResource_document_resource(self, h) ==
    LET generic == GenericResource_document_resource(self, h)
    IN  [status |-> "AttributeError",
         handlers |-> generic,
         applied |-> NoDecorators]

\* ListCreateAPIResource._document_resource: no generic step
ListCreateAPIResource_document_resource(self, h) ==
    LET get_method_decorators == _get_method_decorators(self)
        post_method_decoratos == _post_method_decorators(self)
    IN  [status |-> "registered",
         handlers |-> [h EXCEPT
                          !["get"] = bulk_decorate(get_method_decorators, h["get"]),
                          !["post"] = bulk_decorate(post_method_decoratos, h["post"])],
         applied |-> [get |-> get_method_decorators, post |-> post_method_decoratos]]

\* cls._document_resource(namespace), resolved on the class
_document_resource(self, h) ==
    CASE self.kind = "ListAPIResource" -> ListAPIResource_document_resource(self, h)
      [] self.kind = "CreateAPIResource" -> CreateAPIResource_document_resource(self, h)
      [] OTHER -> ListCreateAPIResource_document_resource(self, h)

------------------------------------------------------------------------------
\* How a call ends

\* an HTTP response built by the handler
Response(status, payload, data) ==
    [kind |-> "response", status |-> status, payload |-> payload, data |-> data]

\* a value returned by the handler, rendered as a 200 response by the framework
Return(obj) ==
    [kind |-> "return", status |-> 200, payload |-> "entity", data |-> <<obj>>]

\* http_exceptions.abort(code=..., message=...)
abort(code, message) ==
    [kind |-> "abort", status |-> code, payload |-> message, data |-> <<>>]

\* an exception that is not an HTTP error
Raise(exception) ==
    [kind |-> "raise", status |-> 0, payload |-> exception, data |-> <<>>]

NoOutcome == [kind |-> "none", status |-> 0, payload |-> "", data |-> <<>>]

\* what a method body did: how it ended, the table it left, the storage
\* accesses it made, and whether schema.dump ran ("none", "ok", "errors")
BodyResult(outcome, tbl, accesses, dumped) ==
    [outcome |-> outcome, table |-> tbl, accesses |-> accesses, dumped |-> dumped]

\* the arguments a body receives from the parameters decorator, if any
NoArgs == [given |-> FALSE, offset |-> 0, limit |-> 0, name |-> 0]
Args(offset, limit, name) ==
    [given |-> TRUE, offset |-> offset, limit |-> limit, name |-> name]

------------------------------------------------------------------------------
\* Storage collaborators: a lazy query over the table, and the session

\* model.query: every row, no OFFSET, no LIMIT (-1)
Query(rows) == [rows |-> rows, offset |-> 0, limit |-> -1]
offset(queryset, o) == [queryset EXCEPT !.offset = o]
limit(queryset, l) == [queryset EXCEPT !.limit = l]

\* iterating a query: skip OFFSET rows, then take at most LIMIT rows
Fetch(queryset) ==
    LET n == Len(queryset.rows)
        first == queryset.offset + 1
        last == IF queryset.limit < 0 THEN n
                ELSE Min(n, queryset.offset + queryset.limit)
    IN  SubSeq(queryset.rows, first, last)

\* schema.dump of one entity: the schema's fields
SchemaDump(entity) == [id |-> entity.id, name |-> entity.name]

\* model(**args): a transient entity, its primary key not yet assigned
Model(args) == [id |-> 0, name |-> args.name]

\* the INSERT at commit breaks the unique constraint on name
Conflicts(tbl, obj) == \E i \in 1 .. Len(tbl) : tbl[i].name = obj.name

\* "with db.session.begin(): db.session.add(obj)": the unit of work commits on
\* normal exit, assigning the primary key; a conflict raises IntegrityError and
\* rolls the unit of work back
Transaction(tbl, obj) ==
    IF Conflicts(tbl, obj)
    THEN [ok |-> FALSE, exception |-> "IntegrityError", table |-> tbl, obj |-> obj]
    ELSE LET persisted == [obj EXCEPT !.id = Len(tbl) + 1]
         IN  [ok |-> TRUE, exception |-> "", table |-> Append(tbl, persisted),
              obj |-> persisted]

\* flask.jsonify(errors, status=400): given both a positional and a keyword
\* argument, Flask before 0.11 answers 200 with dict(errors, status=400) as the
\* body, and Flask from 0.11 on raises TypeError
jsonify_errors(legacy) ==
    IF legacy THEN Response(200, "errors and status key", <<>>)
    ELSE Raise("TypeError")

------------------------------------------------------------------------------
\* GenericResource / ListAPIResource / CreateAPIResource method bodies

\* GenericResource.get_queryset
get_queryset(self, tbl) ==
    IF self.model = "None"
    THEN [ok |-> FALSE, exception |-> "AssertionError", queryset |-> Query(<<>>)]
    ELSE [ok |-> TRUE, exception |-> "", queryset |-> Query(tbl)]

\* a _paginate that applies the limit where the offset belongs and vice versa
_paginate_swapped(self, args, queryset) ==
    IF ~self.pagination_class
    THEN [ok |-> FALSE, exception |-> "AssertionError", queryset |-> queryset]
    ELSE IF ~args.given
         THEN [ok |-> FALSE, exception |-> "KeyError", queryset |-> queryset]
         ELSE [ok |-> TRUE, exception |-> "",
               queryset |-> limit(offset(queryset, args.limit), args.offset)]

\* ListAPIResource._paginate, called with a queryset (a Query object is truthy)
_paginate(self, args, queryset) ==
    IF ~self.pagination_class
    THEN [ok |-> FALSE, exception |-> "AssertionError", queryset |-> queryset]
    ELSE IF ~args.given
         \* pagination_class().dump(None).data has no 'offset' key
         THEN [ok |-> FALSE, exception |-> "KeyError", queryset |-> queryset]
         ELSE [ok |-> TRUE, exception |-> "",
               queryset |-> limit(offset(queryset, args.offset), args.limit)]

\* ListAPIResource.get
get(self, pagination_args, tbl, dumpErrors, legacy) ==
    LET base == get_queryset(self, tbl)
    IN  IF ~base.ok
        THEN BodyResult(Raise(base.exception), tbl, 0, "none")
        ELSE
        LET paged == IF self.pagination_class
                     THEN _paginate(self, pagination_args, base.queryset)
                     ELSE base
        IN  IF ~paged.ok
            THEN BodyResult(Raise(paged.exception), tbl, 1, "none")
            ELSE
            LET rows == Fetch(paged.queryset)
                data == [i \in 1 .. Len(rows) |-> SchemaDump(rows[i])]
            IN  IF dumpErrors
                THEN BodyResult(jsonify_errors(legacy), tbl, 1, "errors")
                ELSE BodyResult(Response(200, "data", data), tbl, 1, "ok")

\* a post whose except clause does not catch the conflict
post_uncaught(self, args, tbl) ==
    IF ~args.given
    THEN BodyResult(Raise("TypeError"), tbl, 0, "none")
    ELSE IF self.model = "None"
    THEN BodyResult(Raise("TypeError"), tbl, 0, "none")
    ELSE
    LET done == Transaction(tbl, Model(args))
    IN  IF ~done.ok
        THEN BodyResult(Raise(done.exception), done.table, 1, "none")
        ELSE BodyResult(Return(done.obj), done.table, 1, "none")

\* CreateAPIResource.post
post(self, args, tbl) ==
    IF ~args.given
    \* post() is called without its positional argument
    THEN BodyResult(Raise("TypeError"), tbl, 0, "none")
    ELSE IF self.model = "None"
    \* self.model(**args): None is not callable
    THEN BodyResult(Raise("TypeError"), tbl, 0, "none")
    ELSE
    LET done == Transaction(tbl, Model(args))
    IN  IF ~done.ok
        \* except sqlalchemy.exc.IntegrityError: abort(409, str(exception))
        THEN BodyResult(abort(409, done.exception), done.table, 1, "none")
        ELSE BodyResult(Return(done.obj), done.table, 1, "none")

------------------------------------------------------------------------------
\* Calling a handler: the layers run outermost first

Event(ev, layer) == [ev |-> ev, layer |-> layer]

\* how a call ended, before its events are put together
Stopped(outcome, tbl) ==
    [outcome |-> outcome, table |-> tbl, accesses |-> 0, dumped |-> "none",
     args |-> NoArgs]

\* a wrapper's code after the wrapped call runs only when the call returned
Returned(outcome) == outcome.kind \in {"response", "return"}

\* the events of a call that entered the layers `entered`, outermost first, the
\* last of which ended it: every layer is entered in turn, and when the last
\* one returned, the wrappers around it return innermost first
Trace(entered, outcome) ==
    LET k == Len(entered)
    IN  [i \in 1 .. k |-> Event("enter", entered[i])]
        \o (IF Returned(outcome)
            THEN [i \in 1 .. k - 1 |-> Event("exit", entered[k - i])]
            ELSE <<>>)

\* the result of a call: its events, then what the body result holds
CallResult(entered, r) ==
    [trace |-> Trace(entered, r.outcome), outcome |-> r.outcome, table |-> r.table,
     accesses |-> r.accesses, dumped |-> r.dumped, args |-> r.args]

\* handler(*args): `entered` are the wrappers already entered around it
RECURSIVE Call(_, _, _, _, _, _)
Call(self, handler, args, req, tbl, entered) ==
    LET layer == Head(handler)
        now == Append(entered, layer)
    IN  CASE layer.type = "body" ->
                CallResult(now,
                    (IF layer.of = "get"
                     THEN get(self, args, tbl, req.dumpErrors, req.legacy)
                     ELSE post(self, args, tbl)) @@ [args |-> args])
          [] layer.type = "permission" /\ layer.of = "DenyAll" ->
                CallResult(now, Stopped(abort(403, "authorization"), tbl))
          [] layer.type = "parameters" /\ ~req.valid ->
                CallResult(now, Stopped(abort(400, "validation"), tbl))
          [] layer.type = "parameters" ->
                Call(self, Tail(handler), Args(req.offset, req.limit, req.name),
                     req, tbl, now)
          [] OTHER ->
                Call(self, Tail(handler), args, req, tbl, now)

------------------------------------------------------------------------------
\* The resource: declared once, registered once, then serving requests

Descriptors ==
    { [kind |-> k, model |-> m, parameters |-> p, pagination_class |-> g,
       permission_classes |-> perms] :
        k \in Kinds, m \in {"None", "Widget"}, p \in BOOLEAN,
        g \in BOOLEAN, perms \in SeqsUpTo(PermissionClasses, MaxPerms) }

\* pagination_class is an attribute of the list capability only
ValidDescriptor(d) == d.kind = "CreateAPIResource" => ~d.pagination_class

Seeded(k) == [i \in 1 .. k |-> [id |-> i, name |-> i]]

NoCall ==
    [verb |-> "none", args |-> NoArgs, trace |-> <<>>, outcome |-> NoOutcome,
     accesses |-> 0, dumped |-> "none", before |-> <<>>]

NotInvoked == [trace |-> <<>>, outcome |-> NoOutcome]

Init ==
    /\ cls \in {d \in Descriptors : ValidDescriptor(d)}
    /\ handlers = [v \in Verbs |-> IF v \in Methods(cls.kind) THEN <<Body(v)>> ELSE <<>>]
    /\ applied = NoDecorators
    /\ docStatus = "unregistered"
    /\ table \in {Seeded(k) : k \in (IF cls.model = "None" THEN {0} ELSE 0 .. MaxRows)}
    /\ storageAccess = 0
    /\ lastCall = NoCall
    /\ decorators = <<>>
    /\ func = <<Body("get")>>
    /\ composed = <<>>
    /\ invoked = NotInvoked

\* registration: cls._document_resource(namespace), once per class
Register ==
    /\ docStatus = "unregistered"
    /\ LET r == _document_resource(cls, handlers)
       IN  /\ docStatus' = r.status
           /\ handlers' = r.handlers
           /\ applied' = r.applied
    /\ UNCHANGED <<cls, table, storageAccess, lastCall>>
    /\ UNCHANGED bulkVars

\* one request dispatched to the class's verb attribute
Serve(verb, req) ==
    /\ docStatus = "registered"
    /\ verb \in Methods(cls.kind)
    /\ storageAccess < MaxAccess
    /\ \E r \in {Call(cls, handlers[verb], NoArgs, req, table, <<>>)} :
           /\ table' = r.table
           /\ storageAccess' = storageAccess + r.accesses
           /\ lastCall' = [verb |-> verb, args |-> r.args, trace |-> r.trace,
                           outcome |-> r.outcome, accesses |-> r.accesses,
                           dumped |-> r.dumped, before |-> table]
    /\ UNCHANGED <<cls, handlers, applied, docStatus>>
    /\ UNCHANGED bulkVars

\* the requests a client can send: rejected input carries no usable values, and
\* the Flask version only shows when serialization reports errors
GetRequests ==
    { [valid |-> valid, offset |-> o, limit |-> l, name |-> 0,
       dumpErrors |-> dumpErrors, legacy |-> legacy] :
        valid \in BOOLEAN, o \in 0 .. MaxOffset, l \in 0 .. MaxLimit,
        dumpErrors \in BOOLEAN, legacy \in BOOLEAN }

PostRequests ==
    { [valid |-> valid, offset |-> 0, limit |-> 0, name |-> n,
       dumpErrors |-> FALSE, legacy |-> FALSE] :
        valid \in BOOLEAN, n \in Names }

Canonical(req) ==
    /\ ~req.valid => req.offset = 0 /\ req.limit = 0 /\ req.name \in {0, 1}
    /\ ~req.dumpErrors => ~req.legacy

\* GET <collection>
Get == \E req \in {q \in GetRequests : Canonical(q)} : Serve("get", req)

\* POST <collection>
Post == \E req \in {q \in PostRequests : Canonical(q)} : Serve("post", req)

Next == Register \/ Get \/ Post

Spec == Init /\ [][Next]_vars

------------------------------------------------------------------------------
\* bulk_decorate on its own: any decorator list, any target

DecoratorSet ==
    { response(400, "none"), parameters("parameters"),
      permission_required("AllowAll"), permission_required("DenyAll") }

InitBulk ==
    /\ cls = [kind |-> "ListCreateAPIResource", model |-> "Widget", parameters |-> FALSE,
              pagination_class |-> FALSE, permission_classes |-> <<>>]
    /\ handlers = [v \in Verbs |-> <<Body(v)>>]
    /\ applied = NoDecorators
    /\ docStatus = "unregistered"
    /\ table = <<>>
    /\ storageAccess = 0
    /\ lastCall = NoCall
    /\ decorators \in SeqsUpTo(DecoratorSet, MaxLen)
    /\ func \in {<<Body("get")>>, <<Body("post")>>}
    /\ composed = <<>>
    /\ invoked = NotInvoked

\* composed = bulk_decorate(decorators)(func)
Compose ==
    /\ composed = <<>>
    /\ composed' = bulk_decorate(decorators, func)
    /\ UNCHANGED <<decorators, func, invoked>>
    /\ UNCHANGED resourceVars

\* one call of the composed handler
Invoke ==
    /\ composed # <<>>
    /\ invoked = NotInvoked
    /\ \E valid \in BOOLEAN :
        \E r \in {Call(cls, composed, NoArgs,
                        [valid |-> valid, offset |-> 0, limit |-> 1, name |-> 1,
                         dumpErrors |-> FALSE, legacy |-> FALSE], table, <<>>)} :
            invoked' = [trace |-> r.trace, outcome |-> r.outcome]
    /\ UNCHANGED <<decorators, func, composed>>
    /\ UNCHANGED resourceVars

NextBulk == Compose \/ Invoke

SpecBulk == InitBulk /\ [][NextBulk]_vars

------------------------------------------------------------------------------
\* Properties

Count(s, x) == Cardinality({i \in 1 .. Len(s) : s[i] = x})

\* positions of the events of a call that enter a layer of the given type
Entered(trace, type) ==
    {i \in 1 .. Len(trace) : trace[i].ev = "enter" /\ trace[i].layer.type = type}

BodyReached(call) == Entered(call.trace, "body") # {}

\* the entities visible through get_queryset()
Visible(tbl) == Fetch(get_queryset(cls, tbl).queryset)

\* the intended decorator list: each part exactly when its key is present
Intended(responses, settings, params, perms) ==
    responses
    \o (IF "parameters" \in DOMAIN settings THEN params ELSE <<>>)
    \o (IF "permissions" \in DOMAIN settings THEN perms ELSE <<>>)

IntendedGet ==
    LET settings == get_method_input_output_settings(cls)
    IN  Intended(settings.response_schemas, settings,
                 IF "parameters" \in DOMAIN settings
                 THEN <<settings.parameters>> ELSE <<>>,
                 IF "permissions" \in DOMAIN settings
                 THEN settings.permissions ELSE <<>>)

IntendedPost ==
    LET settings == post_method_settings(cls)
    IN  Intended(<<response(400, "none"), response(200, "one")>>, settings,
                 <<parameters("parameters")>>,
                 [i \in 1 .. Len(cls.permission_classes) |->
                     permission_required(cls.permission_classes[i])])

\* C1: a resource with a permission class that always rejects: once
\* _document_resource has run, every request ends in an authorization failure
\* and the storage-access counter stays at zero.
C1_RejectingPermissionShortCircuits ==
    (docStatus # "unregistered" /\ "DenyAll" \in Range(cls.permission_classes))
        => /\ storageAccess = 0
           /\ lastCall.verb # "none" => lastCall.outcome = abort(403, "authorization")

\* The storage half of C1 alone: with a rejecting permission class declared, no
\* request reaches get_queryset() or session.add().
StorageUntouchedUnderRejection ==
    (docStatus # "unregistered" /\ "DenyAll" \in Range(cls.permission_classes))
        => storageAccess = 0

\* C2: a resource with a parameter validator and permission classes: a call
\* runs all permission checks first, then parameter validation, then the body;
\* parameter validation never runs before a permission check.
C2_PermissionsBeforeParameters ==
    (/\ lastCall.verb # "none"
     /\ cls.parameters \/ cls.pagination_class
     /\ cls.permission_classes # <<>>)
        => LET t == lastCall.trace
               validated == lastCall.verb = "get" \/ cls.parameters
           IN  /\ \A i \in Entered(t, "parameters") :
                    \A j \in Entered(t, "permission") : j < i
               /\ BodyReached(lastCall) =>
                    /\ Cardinality(Entered(t, "permission")) = Len(cls.permission_classes)
                    /\ validated => Entered(t, "parameters") # {}

\* C3: the decorator lists built by _get_method_decorators and
\* _post_method_decorators are the response entries, then the parameters entry
\* if present, then the permission entries if present.
C3_DecoratorListAsIntended ==
    docStatus = "registered" =>
        /\ "get" \in Methods(cls.kind) => applied["get"] = IntendedGet
        /\ "post" \in Methods(cls.kind) => applied["post"] = IntendedPost

\* C4: post(args) on a resource with a model: with valid args it returns an
\* entity whose fields equal args, visible afterwards; with args that break the
\* uniqueness constraint it aborts with 409 and the conflict message, adds to
\* the session once, and leaves the visible entities unchanged; a call that
\* does not return normally never changes the visible entities.
C4_CreateCommitsOrRollsBack ==
    /\ (lastCall.verb # "none" /\ lastCall.outcome.kind # "return")
          => table = lastCall.before
    /\ (lastCall.verb = "post" /\ cls.model # "None" /\ lastCall.args.given) =>
          LET before == lastCall.before
              duplicate == \E i \in 1 .. Len(before) :
                              before[i].name = lastCall.args.name
          IN  /\ lastCall.accesses = 1
              /\ duplicate =>
                    /\ lastCall.outcome = abort(409, "IntegrityError")
                    /\ Visible(table) = Visible(before)
              /\ ~duplicate =>
                    /\ lastCall.outcome.kind = "return"
                    /\ lastCall.outcome.data[1].name = lastCall.args.name
                    /\ Visible(table) = Append(Visible(before), lastCall.outcome.data[1])

C4_Witness_ConflictAfterCreate ==
    /\ lastCall.verb = "post"
    /\ lastCall.outcome = abort(409, "IntegrityError")
    /\ Len(table) > 0
    /\ table[Len(table)].name = lastCall.args.name
    /\ storageAccess = 2

\* C5: on a resource without a model, every storage-touching operation fails
\* with the `model is not None` assertion before any storage access.
C5_MissingModelIsAssertionError ==
    (/\ cls.model = "None"
     /\ BodyReached(lastCall)
     /\ lastCall.verb = "post" => lastCall.args.given)
        => /\ lastCall.outcome = Raise("AssertionError")
           /\ lastCall.accesses = 0

\* C6: with a pagination_class, offset=o and limit=l over n stored entities:
\* the list handler serializes exactly the entities at positions
\* o .. min(o+l, n)-1 of the base queryset, in order, at most l of them.
C6_PageIsTheRequestedWindow ==
    (lastCall.verb = "get" /\ cls.pagination_class /\ lastCall.dumped = "ok") =>
        LET o == lastCall.args.offset
            l == lastCall.args.limit
            all == Visible(table)
            stop == Min(o + l, Len(all))
            k == IF stop > o THEN stop - o ELSE 0
            data == lastCall.outcome.data
        IN  /\ lastCall.args.given
            /\ Len(data) = k
            /\ k <= l
            /\ \A i \in 1 .. k : data[i] = SchemaDump(all[o + i])

C6_Witness_ShortLastPage ==
    /\ lastCall.verb = "get"
    /\ cls.pagination_class
    /\ lastCall.dumped = "ok"
    /\ lastCall.args.offset > 0
    /\ Len(lastCall.outcome.data) > 0
    /\ Len(lastCall.outcome.data) < lastCall.args.limit

\* C7: _document_resource completes without error for every capability and
\* leaves each of its verb attributes replaced by the computed decorator chain
\* applied to the handler.
C7_RegistrationCompletes ==
    docStatus # "unregistered" =>
        /\ docStatus = "registered"
        /\ \A v \in Methods(cls.kind) :
              LET h == handlers[v]
                  n == Len(applied[v])
              IN  /\ Len(h) > n
                  /\ SubSeq(h, 1, n) = applied[v]
                  /\ h[Len(h)] = Body(v)

\* C8: bulk_decorate([d1, ..., dn])(f) = d1(d2(...dn(f)...)): the first-listed
\* decorator is the outermost wrapper, its code runs first on a call and last
\* on return, and the empty list returns f unchanged.
RECURSIVE Nested(_, _)
Nested(decs, f) ==
    IF decs = <<>> THEN f ELSE Decorate(Head(decs), Nested(Tail(decs), f))

C8_FirstListedIsOutermost ==
    /\ composed # <<>> =>
          /\ composed = Nested(decorators, func)
          /\ decorators = <<>> => composed = func
    /\ (invoked # NotInvoked /\ decorators # <<>>) =>
          /\ invoked.trace[1] = Event("enter", decorators[1])
          /\ Returned(invoked.outcome) =>
                invoked.trace[Len(invoked.trace)] = Event("exit", decorators[1])

C8_Witness_ReturnedThroughTwoWrappers ==
    /\ Len(decorators) >= 2
    /\ decorators[1] # decorators[2]
    /\ composed # <<>>
    /\ Returned(invoked.outcome)

\* C9: in the list handler, serialization errors give status 400 with the
\* error payload, and otherwise status 200 with the serialized data; errors
\* never come with status 200.
C9_SerializationErrorsAre400 ==
    lastCall.verb = "get" =>
        /\ lastCall.dumped = "errors" =>
              /\ lastCall.outcome.kind = "response"
              /\ lastCall.outcome.status = 400
              /\ lastCall.outcome.payload = "errors"
        /\ lastCall.dumped = "ok" =>
              /\ lastCall.outcome.status = 200
              /\ lastCall.outcome.payload = "data"

\* C10: after one _document_resource on a List or ListCreate resource with
\* permission classes, each verb handler is wrapped by each declared permission
\* check exactly once: none twice, none omitted.
C10_PermissionsWrappedOnce ==
    (/\ docStatus = "registered"
     /\ cls.kind \in {"ListAPIResource", "ListCreateAPIResource"}
     /\ cls.permission_classes # <<>>)
        => \A v \in Methods(cls.kind) : \A c \in PermissionClasses :
              Count(handlers[v], permission_required(c))
                  = Count(cls.permission_classes, c)

====
